---- MODULE Spec2Model ----
(***************************************************************************)
(* State-machine model of the voice agents of this repository:             *)
(*   src/agent/agent.py     the drive-thru variant (four roles, hand-offs)  *)
(*   src/agent/agent_kr.py  the order variant (IntroAgent -> OrderAgent)    *)
(*   src/agent_test.py      the reservation variant                         *)
(*   src/agent/agent_kr_test.py  the keyword-gated order variant            *)
(*   src/wav_merger.py      the batched wav concatenation                   *)
(* Python's Optional[T] is modelled as a sequence of length 0 (None) or 1.  *)
(***************************************************************************)
EXTENDS Integers, Sequences, FiniteSets, TLC

VARIABLES
    program,          \* which program is running: "agent", "agent_kr", "agent_test",
                      \* "agent_kr_test", "wav_merger"
    userdata,         \* session.userdata (DriveThruData / OrderData / ReservationData)
    current_agent,    \* session.current_agent
    entering,         \* the active agent's on_enter has been scheduled and not yet run
    chat_ctx,         \* drive-thru: each agent's chat_ctx.items
    truncated,        \* drive-thru: the local `truncated.items` of the last on_enter
    next_id,          \* source of fresh chat item ids
    said,             \* number of dialogue items the runtime has added
    ret,              \* what the last tool call returned
    add_calls,        \* history: the records passed to add_item, in call order
    handoffs,         \* history: number of _transfer_to_agent calls so far
    checkout_started, \* history: order_done has handed off to the PaymentAgent
    calls,            \* order/reservation: completion handlers suspended at an await
    interrupts,       \* order/reservation: session.interrupt() calls so far
    final_replies,    \* order/reservation: non-interruptible replies requested so far
    delete_requests,  \* order/reservation: delete_room requests issued so far
    room_deleted,     \* order/reservation: the room has been torn down
    entry_reply,      \* drive-thru: the reply on_enter requested, until it is done
    jobs,             \* two concurrent jobs: their userdata objects (SpecJobs)
    wav               \* wav_merger.py: combine_wavs_in_batches in progress (SpecWav)

vars == <<program, userdata, current_agent, entering, chat_ctx, truncated, next_id,
          said, ret, add_calls, handoffs, checkout_started, calls, interrupts,
          final_replies, delete_requests, room_deleted, entry_reply, jobs, wav>>

dialogue_vars == <<chat_ctx, truncated, next_id, said>>
room_vars == <<calls, interrupts, final_replies, delete_requests, room_deleted>>
other_vars == <<jobs, wav>>

(* ------------------------------ bounds --------------------------------- *)
MaxOrder == 2        \* add_item is offered while the order has fewer records
MaxHandoffs == 5     \* hand-off tools are offered while fewer hand-offs happened
MaxDialogue == 7     \* dialogue items the runtime adds (SpecCtx)
MaxCtxHandoffs == 4  \* hand-offs explored together with dialogue (SpecCtx)
MaxInflight == 2     \* completion handlers the runtime runs at the same time
MaxMenu == 2         \* comma-separated segments in order_started's menu_items
MaxFiles == 3        \* wav files in the folder are named 1.wav .. MaxFiles.wav
MaxFrames == 2       \* a wav file holds 1 .. MaxFrames frames
MaxBatch == 2        \* batch_size is 1 .. MaxBatch

(* --------------------------- Optional[T] ------------------------------- *)
None == <<>>
Some(x) == <<x>>

\* Python truthiness of an Optional[str]: None and "" are falsy.
TruthyStr(o) == o # None /\ o[1] # ""
\* Python truthiness of an Optional[float]: None and 0.0 are falsy.
TruthyNum(o) == o # None /\ o[1] # 0
\* Python truthiness of an Optional[list]: None and [] are falsy.
TruthyList(o) == o # None /\ o[1] # <<>>
\* Python truthiness of an Optional[bool]: None and False are falsy.
TruthyBool(o) == o # None /\ o[1]

(* ------------------------ drive-thru: the data -------------------------- *)
\* userdata.agents: the role registry filled by entrypoint.
AgentNames == {"greeter", "order", "payment", "pickup"}

DriveThruData ==
    [customer_name |-> None, car_model |-> None, license_plate |-> None,
     order |-> None, pay_method |-> None, expense |-> None,
     checked_out |-> None, agents |-> {}, prev_agent |-> None]

\* entrypoint: userdata = DriveThruData(); userdata.agents.update({...}).
entrypoint_userdata == [DriveThruData EXCEPT !.agents = AgentNames]

\* The seven data fields of DriveThruData (all but the agent bookkeeping).
DataFields(ud) ==
    <<ud.customer_name, ud.car_model, ud.license_plate, ud.order,
      ud.pay_method, ud.expense, ud.checked_out>>

\* DriveThruData.summarize: each field `value or "unknown"` (checked_out:
\* `value or False`), rendered by yaml.dump as a tagged scalar.
summarize(ud) ==
    [name          |-> IF TruthyStr(ud.customer_name)
                       THEN <<"str", ud.customer_name[1]>> ELSE <<"str", "unknown">>,
     car_model     |-> IF TruthyStr(ud.car_model)
                       THEN <<"str", ud.car_model[1]>> ELSE <<"str", "unknown">>,
     license_plate |-> IF TruthyStr(ud.license_plate)
                       THEN <<"str", ud.license_plate[1]>> ELSE <<"str", "unknown">>,
     order         |-> IF TruthyList(ud.order)
                       THEN <<"list", ud.order[1]>> ELSE <<"str", "unknown">>,
     pay_method    |-> IF TruthyStr(ud.pay_method)
                       THEN <<"str", ud.pay_method[1]>> ELSE <<"str", "unknown">>,
     expense       |-> IF TruthyNum(ud.expense)
                       THEN <<"num", ud.expense[1]>> ELSE <<"str", "unknown">>,
     checked_out   |-> IF TruthyBool(ud.checked_out)
                       THEN <<"bool", TRUE>> ELSE <<"bool", FALSE>>]

\* A tool's return value: a plain string, or an (agent, string) pair.
Reply(msg) == [agent |-> None, msg |-> msg]
Transfer(name, msg) == [agent |-> Some(name), msg |-> msg]
\* A tool call that ends in an uncaught exception returns nothing.
Raise(exc) == [agent |-> None, msg |-> exc]

\* The state of the other programs of the repository while this one runs.
NoJobs == <<>>
NoWav == <<>>

(* --------------------- drive-thru: the tool inputs ---------------------- *)
\* What the LLM may pass: any value of the parameter's type. `full` selects
\* the wide sets (Spec); SpecCtx explores dialogue with one value per tool.
Inputs(full) ==
    [names   |-> IF full THEN {"", "Kim"} ELSE {"Kim"},
     models  |-> {"Kia Sorento"},
     plates  |-> {"12ga3456"},
     items   |-> IF full
                 THEN {[item |-> "Caffe Latte", size |-> "Tall", options |-> <<"Oat milk">>],
                       [item |-> "Americano", size |-> "Venti", options |-> <<>>]}
                 ELSE {[item |-> "Caffe Latte", size |-> "Tall", options |-> <<"Oat milk">>]},
     methods |-> IF full THEN {"", "card"} ELSE {"card"},
     totals  |-> IF full THEN {0, 5300} ELSE {5300},
     max_order    |-> IF full THEN MaxOrder ELSE 1,
     max_handoffs |-> IF full THEN MaxHandoffs ELSE MaxCtxHandoffs]

\* A tool of the active agent runs only between turns: not while the
\* agent's entry turn (generate_reply(tool_choice="none")) is pending.
ToolOf(agent) == program = "agent" /\ current_agent = agent /\ ~entering

\* A tool that returns a plain string leaves the session where it is.
Stay == UNCHANGED <<program, entry_reply, other_vars, current_agent, entering, dialogue_vars, handoffs,
                    checkout_started, room_vars>>

(* ---------------------- drive-thru: common tools ------------------------ *)
\* update_name: context.userdata.customer_name = name
update_name(D) ==
    /\ ToolOf("order")
    /\ \E name \in D.names :
          /\ userdata' = [userdata EXCEPT !.customer_name = Some(name)]
          /\ ret' = Reply(<<"saved_name", name>>)
    /\ UNCHANGED add_calls
    /\ Stay

\* update_car_model: context.userdata.car_model = model
update_car_model(D) ==
    /\ ToolOf("order")
    /\ \E model \in D.models :
          /\ userdata' = [userdata EXCEPT !.car_model = Some(model)]
          /\ ret' = Reply(<<"saved_car_model", model>>)
    /\ UNCHANGED add_calls
    /\ Stay

\* update_license_plate: context.userdata.license_plate = plate
update_license_plate(D) ==
    /\ ToolOf("order")
    /\ \E plate \in D.plates :
          /\ userdata' = [userdata EXCEPT !.license_plate = Some(plate)]
          /\ ret' = Reply(<<"saved_license_plate", plate>>)
    /\ UNCHANGED add_calls
    /\ Stay

\* add_item that starts a new list on every call.
AppendItem_fresh_list(order, rec) == Some(<<rec>>)

\* The list add_item leaves in data.order:
\* data.order = data.order or []; data.order.append({item, size, options})
AppendItem(order, rec) ==
    Some(Append(IF TruthyList(order) THEN order[1] ELSE <<>>, rec))

\* The order list as a sequence: an unset order counts as length 0.
OrderSeq(ud) == IF ud.order = None THEN <<>> ELSE ud.order[1]

add_item(D) ==
    /\ ToolOf("order")
    /\ Len(OrderSeq(userdata)) < D.max_order
    /\ \E rec \in D.items :
          /\ userdata' = [userdata EXCEPT !.order = AppendItem(userdata.order, rec)]
          /\ add_calls' = Append(add_calls, rec)
          /\ ret' = Reply(<<"added", rec.size, rec.item>>)
    /\ Stay

\* update_pay_method that also marks the order as checked out.
update_pay_method_checks_out(D) ==
    /\ ToolOf("payment")
    /\ \E method \in D.methods :
          /\ userdata' = [userdata EXCEPT !.pay_method = Some(method),
                                          !.checked_out = Some(TRUE)]
          /\ ret' = Reply(<<"pay_method_set", method>>)
    /\ UNCHANGED add_calls
    /\ Stay

\* update_pay_method: context.userdata.pay_method = method
update_pay_method(D) ==
    /\ ToolOf("payment")
    /\ \E method \in D.methods :
          /\ userdata' = [userdata EXCEPT !.pay_method = Some(method)]
          /\ ret' = Reply(<<"pay_method_set", method>>)
    /\ UNCHANGED add_calls
    /\ Stay

(* ------------------------ drive-thru: BaseAgent ------------------------- *)
\* ChatContext.copy(exclude_instructions=True, exclude_function_call=False):
\* the items without the system/developer messages; function calls are kept.
copy_exclude_instructions(items) ==
    SelectSeq(items, LAMBDA m : ~(m.type = "message" /\ m.role \in {"system", "developer"}))

\* A chat context must not start with a function call or its output.
RECURSIVE strip_leading_calls(_)
strip_leading_calls(items) ==
    IF items # <<>> /\ items[1].type \in {"function_call", "function_call_output"}
    THEN strip_leading_calls(Tail(items))
    ELSE items

\* ChatContext.truncate(max_items=n): the last n items (then without leading
\* function calls); the first system message, if any, is put back in front.
truncate(items, n) ==
    LET first_sys == SelectSeq(items, LAMBDA m : m.type = "message" /\ m.role = "system")
        last_n == IF Len(items) > n
                  THEN SubSeq(items, Len(items) - n + 1, Len(items)) ELSE items
        kept == strip_leading_calls(last_n)
    IN  IF first_sys # <<>> THEN <<first_sys[1]>> \o kept ELSE kept

\* The number of items on_enter asks truncate to keep.
max_items == 6

Ids(items) == {items[i].id : i \in DOMAIN items}

\* on_enter, lines 119-122: the previous agent's history without instructions,
\* truncated, minus the items whose id the new context already holds.
carried_history(ud, ctx) ==
    IF ud.prev_agent # None
    THEN truncate(copy_exclude_instructions(ctx[ud.prev_agent[1]]), max_items)
    ELSE <<>>

\* The merge without the `if m.id not in existing` filter.
merge_history_unfiltered(own, carried) == own \o carried

merge_history(own, carried) ==
    own \o SelectSeq(carried, LAMBDA m : m.id \notin Ids(own))

\* on_enter that puts the system message in front of the history.
on_enter_system_first ==
    /\ program = "agent"
    /\ entering
    /\ entry_reply = None
    /\ LET carried == carried_history(userdata, chat_ctx)
           system_message == [id |-> next_id, type |-> "message", role |-> "system",
                              content |-> summarize(userdata)]
       IN  /\ truncated' = carried
           /\ chat_ctx' = [a \in AgentNames |->
                             IF a = current_agent
                             THEN merge_history(<<system_message>> \o chat_ctx[a], carried)
                             ELSE chat_ctx[a]]
    /\ next_id' = next_id + 1
    /\ entry_reply' = Some([tool_choice |-> "none"])
    /\ UNCHANGED <<program, other_vars, userdata, current_agent, entering, said, ret,
                   add_calls, handoffs, checkout_started, room_vars>>

\* BaseAgent.on_enter: merge the carried history into a copy of the agent's
\* own context, append the system message with the summary, update the
\* context, then request a reply with tool_choice="none".
on_enter ==
    /\ program = "agent"
    /\ entering
    /\ entry_reply = None
    /\ LET carried == carried_history(userdata, chat_ctx)
           merged == merge_history(chat_ctx[current_agent], carried)
           system_message == [id |-> next_id, type |-> "message", role |-> "system",
                              content |-> summarize(userdata)]
       IN  /\ truncated' = carried
           /\ chat_ctx' = [a \in AgentNames |->
                             IF a = current_agent
                             THEN Append(merged, system_message)
                             ELSE chat_ctx[a]]
    /\ next_id' = next_id + 1
    /\ entry_reply' = Some([tool_choice |-> "none"])
    /\ UNCHANGED <<program, other_vars, userdata, current_agent, entering, said, ret,
                   add_calls, handoffs, checkout_started, room_vars>>

\* The reply requested by on_enter has been generated (without tool calls:
\* tool_choice="none"); the entry turn of the agent is over.
entry_reply_done ==
    /\ program = "agent"
    /\ entry_reply # None
    /\ entry_reply' = None
    /\ entering' = FALSE
    /\ UNCHANGED <<program, other_vars, userdata, current_agent, dialogue_vars, ret,
                   add_calls, handoffs, checkout_started, room_vars>>

\* _transfer_to_agent that records the agent it hands off to.
transfer_to_agent_records_target(name, ud) ==
    /\ IF name \in ud.agents
       THEN /\ userdata' = [ud EXCEPT !.prev_agent = Some(name)]
            /\ ret' = Transfer(name, <<"moving_to", name>>)
            /\ current_agent' = name
            /\ entering' = TRUE
            /\ handoffs' = handoffs + 1
       ELSE /\ userdata' = ud
            /\ ret' = Raise(<<"KeyError", name>>)
            /\ UNCHANGED <<current_agent, entering, handoffs>>
    /\ UNCHANGED <<program, entry_reply, other_vars, dialogue_vars, add_calls, room_vars>>

\* _transfer_to_agent that records the outgoing agent before the lookup.
transfer_to_agent_records_first(name, ud) ==
    /\ userdata' = [ud EXCEPT !.prev_agent = Some(current_agent)]
    /\ IF name \in ud.agents
       THEN /\ ret' = Transfer(name, <<"moving_to", name>>)
            /\ current_agent' = name
            /\ entering' = TRUE
            /\ handoffs' = handoffs + 1
       ELSE /\ ret' = Raise(<<"KeyError", name>>)
            /\ UNCHANGED <<current_agent, entering, handoffs>>
    /\ UNCHANGED <<program, entry_reply, other_vars, dialogue_vars, add_calls, room_vars>>

\* BaseAgent._transfer_to_agent(name): look the target up in the registry,
\* record the outgoing agent, return (next_agent, message). The runtime then
\* makes next_agent the current agent and schedules its on_enter.
transfer_to_agent(name, ud) ==
    /\ IF name \in ud.agents
       THEN /\ userdata' = [ud EXCEPT !.prev_agent = Some(current_agent)]
            /\ ret' = Transfer(name, <<"moving_to", name>>)
            /\ current_agent' = name
            /\ entering' = TRUE
            /\ handoffs' = handoffs + 1
       ELSE /\ userdata' = ud
            /\ ret' = Raise(<<"KeyError", name>>)
            /\ UNCHANGED <<current_agent, entering, handoffs>>
    /\ UNCHANGED <<program, entry_reply, other_vars, dialogue_vars, add_calls, room_vars>>

(* ------------------------- drive-thru: agents --------------------------- *)
\* to_order that starts the next customer on empty data.
to_order_new_customer(D) ==
    /\ ToolOf("greeter")
    /\ handoffs < D.max_handoffs
    /\ transfer_to_agent("order", [DriveThruData EXCEPT !.agents = userdata.agents])
    /\ UNCHANGED checkout_started

\* LaneGreeter.to_order
to_order(D) ==
    /\ ToolOf("greeter")
    /\ handoffs < D.max_handoffs
    /\ transfer_to_agent("order", userdata)
    /\ UNCHANGED checkout_started

\* order_done without its empty-order guard.
order_done_unguarded(D) ==
    /\ ToolOf("order")
    /\ handoffs < D.max_handoffs
    /\ transfer_to_agent("payment", userdata)
    /\ checkout_started' = TRUE

\* BaristaOrderTaker.order_done: `if not context.userdata.order` stays put.
order_done(D) ==
    /\ ToolOf("order")
    /\ IF ~TruthyList(userdata.order)
       THEN /\ ret' = Reply(<<"no_order_yet">>)
            /\ UNCHANGED <<userdata, add_calls>>
            /\ Stay
       ELSE /\ handoffs < D.max_handoffs
            /\ transfer_to_agent("payment", userdata)
            /\ checkout_started' = TRUE

\* confirm_total that moves on to the PickupNotifier once the total is set.
confirm_total_hands_off(D) ==
    /\ ToolOf("payment")
    /\ handoffs < D.max_handoffs
    /\ \E total \in D.totals :
          transfer_to_agent("pickup", [userdata EXCEPT !.expense = Some(total)])
    /\ UNCHANGED checkout_started

\* PaymentAgent.confirm_total: context.userdata.expense = total
confirm_total(D) ==
    /\ ToolOf("payment")
    /\ \E total \in D.totals :
          /\ userdata' = [userdata EXCEPT !.expense = Some(total)]
          /\ ret' = Reply(<<"total_is", total>>)
    /\ UNCHANGED add_calls
    /\ Stay

\* payment_done without its guard.
payment_done_unguarded(D) ==
    /\ ToolOf("payment")
    /\ handoffs < D.max_handoffs
    /\ transfer_to_agent("pickup", userdata)
    /\ UNCHANGED checkout_started

\* payment_done that also marks the order as checked out.
payment_done_checks_out(D) ==
    /\ ToolOf("payment")
    /\ IF ~TruthyNum(userdata.expense) \/ ~TruthyStr(userdata.pay_method)
       THEN /\ ret' = Reply(<<"confirm_payment_first">>)
            /\ UNCHANGED <<userdata, add_calls>>
            /\ Stay
       ELSE /\ handoffs < D.max_handoffs
            /\ transfer_to_agent("pickup", [userdata EXCEPT !.checked_out = Some(TRUE)])
            /\ UNCHANGED checkout_started

\* payment_done that checks the total only.
payment_done_total_only(D) ==
    /\ ToolOf("payment")
    /\ IF ~TruthyNum(userdata.expense)
       THEN /\ ret' = Reply(<<"confirm_payment_first">>)
            /\ UNCHANGED <<userdata, add_calls>>
            /\ Stay
       ELSE /\ handoffs < D.max_handoffs
            /\ transfer_to_agent("pickup", userdata)
            /\ UNCHANGED checkout_started

\* PaymentAgent.payment_done: `if not expense or not pay_method` stays put.
payment_done(D) ==
    /\ ToolOf("payment")
    /\ IF ~TruthyNum(userdata.expense) \/ ~TruthyStr(userdata.pay_method)
       THEN /\ ret' = Reply(<<"confirm_payment_first">>)
            /\ UNCHANGED <<userdata, add_calls>>
            /\ Stay
       ELSE /\ handoffs < D.max_handoffs
            /\ transfer_to_agent("pickup", userdata)
            /\ UNCHANGED checkout_started

\* pickup_complete that goes straight back to the BaristaOrderTaker.
pickup_complete_to_order(D) ==
    /\ ToolOf("pickup")
    /\ handoffs < D.max_handoffs
    /\ transfer_to_agent("order", [userdata EXCEPT !.checked_out = Some(TRUE)])
    /\ UNCHANGED checkout_started

\* pickup_complete that clears the order for the next customer.
pickup_complete_clears_order(D) ==
    /\ ToolOf("pickup")
    /\ handoffs < D.max_handoffs
    /\ transfer_to_agent("greeter", [userdata EXCEPT !.checked_out = Some(TRUE),
                                                      !.order = None])
    /\ UNCHANGED checkout_started

\* PickupNotifier.pickup_complete: checked_out = True, then back to the greeter.
pickup_complete(D) ==
    /\ ToolOf("pickup")
    /\ handoffs < D.max_handoffs
    /\ transfer_to_agent("greeter", [userdata EXCEPT !.checked_out = Some(TRUE)])
    /\ UNCHANGED checkout_started

(* ----------------------- drive-thru: the runtime ------------------------ *)
\* The kinds of dialogue item the runtime records in the active agent's
\* context between tool calls: user/assistant messages and function calls.
DialogueKinds ==
    {[type |-> "message", role |-> "user"], [type |-> "function_call", role |-> "assistant"]}

Converse ==
    /\ program = "agent"
    /\ ~entering
    /\ said < MaxDialogue
    /\ \E k \in DialogueKinds :
          chat_ctx' = [chat_ctx EXCEPT ![current_agent] =
                          Append(@, [id |-> next_id, type |-> k.type, role |-> k.role,
                                     content |-> <<>>])]
    /\ next_id' = next_id + 1
    /\ said' = said + 1
    /\ UNCHANGED <<program, entry_reply, other_vars, userdata, current_agent, entering, truncated, ret,
                   add_calls, handoffs, checkout_started, room_vars>>

\* entrypoint: a fresh DriveThruData, the registry, session.start(greeter).
StartOfSession ==
    /\ program = "agent"
    /\ current_agent = "greeter"
    /\ entering = TRUE
    /\ chat_ctx = [a \in AgentNames |-> <<>>]
    /\ truncated = <<>>
    /\ next_id = 1
    /\ said = 0
    /\ ret = Reply(<<"none">>)
    /\ add_calls = <<>>
    /\ handoffs = 0
    /\ checkout_started = FALSE
    /\ calls = <<>>
    /\ interrupts = 0
    /\ final_replies = 0
    /\ delete_requests = 0
    /\ room_deleted = FALSE
    /\ entry_reply = None
    /\ jobs = NoJobs
    /\ wav = NoWav

\* entrypoint: the session starts with the LaneGreeter and the full registry.
Init ==
    /\ userdata = entrypoint_userdata
    /\ StartOfSession

\* The tools that only record who the customer is.
IdentityTools(D) ==
    \/ update_name(D)
    \/ update_car_model(D)
    \/ update_license_plate(D)

\* The tools an order needs to travel greeter -> order -> payment -> pickup.
FlowTools(D) ==
    \/ add_item(D)
    \/ update_pay_method(D)
    \/ to_order(D)
    \/ order_done(D)
    \/ confirm_total(D)
    \/ payment_done(D)
    \/ pickup_complete(D)

\* The drive-thru session with the wide tool inputs; the dialogue between
\* tool calls, which no tool reads, is left out.
Next == on_enter \/ entry_reply_done \/ IdentityTools(Inputs(TRUE)) \/ FlowTools(Inputs(TRUE))

Spec == Init /\ [][Next]_vars

\* The drive-thru session with the dialogue the runtime records between tool
\* calls, one input value per tool, and a customer who is never asked for
\* name, car model or plate (tools that do not touch any chat context).
NextCtx == on_enter \/ entry_reply_done \/ FlowTools(Inputs(FALSE)) \/ Converse

SpecCtx == Init /\ [][NextCtx]_vars

\* The registries an entrypoint could have filled and still start the session
\* (session.start looks up agents["greeter"]).
Registries == {R \in SUBSET AgentNames : "greeter" \in R}

InitRegistry ==
    /\ \E R \in Registries : userdata = [DriveThruData EXCEPT !.agents = R]
    /\ StartOfSession

\* The drive-thru session under every such registry: a hand-off to an agent
\* that was not registered ends in the KeyError of _transfer_to_agent.
SpecRegistry == InitRegistry /\ [][Next]_vars

(* ------------------- order variant (agent_kr.py) ------------------------ *)
\* Fields of the drive-thru session that the other programs do not have.
drive_vars == <<dialogue_vars, add_calls, handoffs, checkout_started>>

\* OrderData(): no items, index 0.
OrderData == [items |-> <<>>, current_item_index |-> 0]

\* OrderItem(name=name): size and special_requests default to None.
OrderItem(name) == [name |-> name, size |-> None, special_requests |-> None]

\* The comma-separated segments menu_items.split(',') may yield, and str.strip
\* of each: blank segments strip to "", padded names lose their padding.
Segments == {"", " ", "latte", " americano"}
strip(seg) ==
    CASE seg = "" -> ""
      [] seg = " " -> ""
      [] seg = "latte" -> "latte"
      [] seg = " americano" -> "americano"

MenuInputs == UNION {[1..n -> Segments] : n \in 1..MaxMenu}

\* [item.strip() for item in menu_items.split(',') if item.strip()]
RECURSIVE item_names(_)
item_names(segs) ==
    IF segs = <<>> THEN <<>>
    ELSE IF strip(Head(segs)) # ""
         THEN <<strip(Head(segs))>> \o item_names(Tail(segs))
         ELSE item_names(Tail(segs))

\* A tool of the active agent: the runtime delivers tool calls as long as
\* the room exists and the agent has been entered.
KrToolOf(prog, agent) ==
    program = prog /\ current_agent = agent /\ ~entering /\ ~room_deleted

\* IntroAgent.on_enter (both programs): generate the greeting.
intro_on_enter ==
    /\ program \in {"agent_kr", "agent_test", "agent_kr_test"}
    /\ current_agent = "IntroAgent"
    /\ entering
    /\ entering' = FALSE
    /\ UNCHANGED <<program, entry_reply, other_vars, userdata, current_agent, ret, drive_vars, room_vars>>

\* order_started without the `if not item_names` check.
order_started_unchecked(menu_items) ==
    LET names == item_names(menu_items)
    IN  /\ userdata' = [items |-> [i \in DOMAIN names |-> OrderItem(names[i])],
                        current_item_index |-> 0]
        /\ ret' = Transfer("OrderAgent", <<"ask_size_of", names>>)
        /\ current_agent' = "OrderAgent"

\* The body of IntroAgent.order_started for one value of menu_items.
order_started_body(menu_items) ==
    LET names == item_names(menu_items)
    IN  IF names = <<>>
        THEN /\ ret' = Reply(<<"say_menu_again">>)
             /\ UNCHANGED <<userdata, current_agent>>
        ELSE /\ userdata' = [items |-> [i \in DOMAIN names |-> OrderItem(names[i])],
                             current_item_index |-> 0]
             /\ ret' = Transfer("OrderAgent", <<"ask_size_of", names, names[1]>>)
             /\ current_agent' = "OrderAgent"

\* IntroAgent.order_started
order_started ==
    /\ KrToolOf("agent_kr", "IntroAgent")
    /\ \E menu_items \in MenuInputs : order_started_body(menu_items)
    /\ UNCHANGED <<program, entry_reply, other_vars, entering, drive_vars, room_vars>>

Sizes == {"", "Tall", "Venti"}
Requests == {None, Some("less ice")}

\* `item.size or '미지정'`, `item.special_requests or '없음'`
shown(o, default) == IF TruthyStr(o) THEN o[1] ELSE default

\* OrderAgent.confirm_full_order: what it returns for the given OrderData.
confirm_full_order(ud) ==
    IF ud.items = <<>>
    THEN Reply(<<"no_order">>)
    ELSE Reply(<<"order_summary",
                 [i \in DOMAIN ud.items |->
                     [no |-> i,
                      name |-> ud.items[i].name,
                      size |-> shown(ud.items[i].size, "unspecified"),
                      special_requests |-> shown(ud.items[i].special_requests, "none")]]>>)

\* confirm_full_order that sends the customer back to the IntroAgent.
confirm_full_order_starts_over ==
    /\ KrToolOf("agent_kr", "OrderAgent")
    /\ ret' = Transfer("IntroAgent", <<"start_again">>)
    /\ current_agent' = "IntroAgent"
    /\ UNCHANGED <<program, entry_reply, other_vars, userdata, entering, drive_vars, room_vars>>

\* confirm_full_order called by the LLM as a tool.
confirm_full_order_tool ==
    /\ KrToolOf("agent_kr", "OrderAgent")
    /\ ret' = confirm_full_order(userdata)
    /\ UNCHANGED <<program, entry_reply, other_vars, userdata, current_agent, entering, drive_vars, room_vars>>

\* add_item_details that leaves the summary to a later confirm_full_order call.
add_item_details_no_summary ==
    /\ KrToolOf("agent_kr", "OrderAgent")
    /\ \E drink_size \in Sizes, special_requests \in Requests :
          LET current_index == userdata.current_item_index
          IN  IF current_index >= Len(userdata.items)
              THEN /\ ret' = confirm_full_order(userdata)
                   /\ UNCHANGED userdata
              ELSE /\ userdata' =
                         [items |-> [userdata.items EXCEPT
                                        ![current_index + 1].size = Some(drink_size),
                                        ![current_index + 1].special_requests = special_requests],
                          current_item_index |-> current_index + 1]
                   /\ ret' = Reply(<<"all_details_collected">>)
    /\ UNCHANGED <<program, entry_reply, other_vars, current_agent, entering, drive_vars, room_vars>>

\* add_item_details that counts the call even when no item is left.
add_item_details_counts_every_call(drink_size, special_requests) ==
    LET current_index == userdata.current_item_index
    IN  IF current_index >= Len(userdata.items)
        THEN /\ userdata' = [userdata EXCEPT !.current_item_index = @ + 1]
             /\ ret' = confirm_full_order(userdata)
        ELSE /\ userdata' =
                   [items |-> [userdata.items EXCEPT
                                  ![current_index + 1].size = Some(drink_size),
                                  ![current_index + 1].special_requests = special_requests],
                    current_item_index |-> current_index + 1]
             /\ IF current_index + 1 < Len(userdata.items)
                THEN ret' = Reply(<<"next_item", userdata.items[current_index + 1].name,
                                    drink_size, shown(special_requests, ""),
                                    userdata.items[current_index + 2].name>>)
                ELSE ret' = confirm_full_order(userdata')

\* add_item_details that always writes the details to the first item.
add_item_details_first_item(drink_size, special_requests) ==
    LET current_index == userdata.current_item_index
    IN  IF current_index >= Len(userdata.items)
        THEN /\ ret' = confirm_full_order(userdata)
             /\ UNCHANGED userdata
        ELSE /\ userdata' =
                   [items |-> [userdata.items EXCEPT
                                  ![1].size = Some(drink_size),
                                  ![1].special_requests = special_requests],
                    current_item_index |-> current_index + 1]
             /\ IF current_index + 1 < Len(userdata.items)
                THEN ret' = Reply(<<"next_item", userdata.items[current_index + 1].name,
                                    drink_size, shown(special_requests, ""),
                                    userdata.items[current_index + 2].name>>)
                ELSE ret' = confirm_full_order(userdata')

\* add_item_details that, when no item is left, takes the details as a
\* change of the last item.
add_item_details_rewrites_last(drink_size, special_requests) ==
    LET current_index == userdata.current_item_index
        n == Len(userdata.items)
    IN  IF current_index >= n
        THEN /\ userdata' =
                   IF n = 0 THEN userdata
                   ELSE [userdata EXCEPT !.items[n].size = Some(drink_size),
                                         !.items[n].special_requests = special_requests]
             /\ ret' = confirm_full_order(userdata')
        ELSE /\ userdata' =
                   [items |-> [userdata.items EXCEPT
                                  ![current_index + 1].size = Some(drink_size),
                                  ![current_index + 1].special_requests = special_requests],
                    current_item_index |-> current_index + 1]
             /\ IF current_index + 1 < n
                THEN ret' = Reply(<<"next_item", userdata.items[current_index + 1].name,
                                    drink_size, shown(special_requests, ""),
                                    userdata.items[current_index + 2].name>>)
                ELSE ret' = confirm_full_order(userdata')

\* The body of OrderAgent.add_item_details for one pair of arguments (items
\* is 0-based in the code, 1-based here).
add_item_details_body(drink_size, special_requests) ==
    LET current_index == userdata.current_item_index
    IN  IF current_index >= Len(userdata.items)
        THEN /\ ret' = confirm_full_order(userdata)
             /\ UNCHANGED userdata
        ELSE /\ userdata' =
                   [items |-> [userdata.items EXCEPT
                                  ![current_index + 1].size = Some(drink_size),
                                  ![current_index + 1].special_requests = special_requests],
                    current_item_index |-> current_index + 1]
             /\ IF current_index + 1 < Len(userdata.items)
                THEN ret' = Reply(<<"next_item", userdata.items[current_index + 1].name,
                                    drink_size, shown(special_requests, ""),
                                    userdata.items[current_index + 2].name>>)
                ELSE ret' = confirm_full_order(userdata')

\* OrderAgent.add_item_details
add_item_details ==
    /\ KrToolOf("agent_kr", "OrderAgent")
    /\ \E drink_size \in Sizes, special_requests \in Requests :
          add_item_details_body(drink_size, special_requests)
    /\ UNCHANGED <<program, entry_reply, other_vars, current_agent, entering, drive_vars, room_vars>>

(* --------------- reservation variant (agent_test.py) -------------------- *)
\* ReservationData(): language defaults to "English".
ReservationData ==
    [name |-> None, language |-> Some("English"), reservation_type |-> None,
     date |-> None, time |-> None, party_size |-> None, special_requests |-> None]

\* IntroAgent.information_gathered
information_gathered ==
    /\ KrToolOf("agent_test", "IntroAgent")
    /\ \E name \in {"Kim"}, language \in {"English", "Korean"} :
          userdata' = [userdata EXCEPT !.name = Some(name), !.language = Some(language)]
    /\ ret' = Transfer("ReservationAgent", <<"start_reservation">>)
    /\ current_agent' = "ReservationAgent"
    /\ entering' = TRUE
    /\ UNCHANGED <<program, entry_reply, other_vars, drive_vars, room_vars>>

\* ReservationAgent.on_enter: generate a reply.
reservation_on_enter ==
    /\ program = "agent_test"
    /\ current_agent = "ReservationAgent"
    /\ entering
    /\ entering' = FALSE
    /\ UNCHANGED <<program, entry_reply, other_vars, userdata, current_agent, ret, drive_vars, room_vars>>

\* The text reservation_details returns for its arguments.
reservation_summary(reservation_type, date, time, party_size, special_requests) ==
    Reply(<<"reservation_summary",
            [type |-> reservation_type, date |-> date, time |-> time,
             party_size |-> party_size,
             special_requests |-> shown(special_requests, "None")]>>)

\* ReservationAgent.reservation_details
reservation_details ==
    /\ KrToolOf("agent_test", "ReservationAgent")
    /\ \E reservation_type \in {"restaurant", "hotel"}, date \in {"2025-05-01"},
          time \in {"19:00"}, party_size \in {2, 4}, special_requests \in {None, Some("window")} :
          /\ userdata' = [userdata EXCEPT !.reservation_type = Some(reservation_type),
                                          !.date = Some(date),
                                          !.time = Some(time),
                                          !.party_size = Some(party_size),
                                          !.special_requests = special_requests]
          /\ ret' = reservation_summary(reservation_type, date, time, party_size,
                                        special_requests)
    /\ UNCHANGED <<program, entry_reply, other_vars, current_agent, entering, drive_vars, room_vars>>

(* ------------- completion tools (agent_kr.py, agent_test.py) ------------ *)
\* order_confirmed / order_cancelled / reservation_confirmed /
\* reservation_cancelled are coroutines with two awaits: the final reply and
\* the delete_room call. `calls` holds the ones suspended at an await.
CompletionTools ==
    [agent_kr |-> {"order_confirmed", "order_cancelled"},
     agent_test |-> {"reservation_confirmed", "reservation_cancelled"},
     agent_kr_test |-> {"order_confirmed"}]

CompletionAgent ==
    [agent_kr |-> "OrderAgent", agent_test |-> "ReservationAgent",
     agent_kr_test |-> "OrderAgent"]

RemoveAt(q, i) == SubSeq(q, 1, i - 1) \o SubSeq(q, i + 1, Len(q))

\* session.interrupt(): cuts off the replies in progress that allow it.
session_interrupt(handlers) ==
    [i \in DOMAIN handlers |->
        IF handlers[i].pc = "await_reply" /\ handlers[i].allow_interruptions
        THEN [handlers[i] EXCEPT !.cut = TRUE]
        ELSE handlers[i]]

\* A completion tool that requests its final reply without
\* allow_interruptions=False (the default allows interruptions).
completion_called_interruptible ==
    /\ program \in DOMAIN CompletionTools
    /\ KrToolOf(program, CompletionAgent[program])
    /\ Len(calls) < MaxInflight
    /\ \E tool \in CompletionTools[program] :
          calls' = Append(session_interrupt(calls),
                          [tool |-> tool, pc |-> "await_reply",
                           steps |-> <<"interrupt", "generate_reply">>,
                           allow_interruptions |-> TRUE, cut |-> FALSE])
    /\ interrupts' = interrupts + 1
    /\ final_replies' = final_replies + 1
    /\ UNCHANGED <<program, entry_reply, other_vars, userdata, current_agent, entering, ret, drive_vars,
                   delete_requests, room_deleted>>

\* The tool is called: session.interrupt(), then generate_reply(instructions,
\* allow_interruptions=False) is requested and awaited.
completion_called ==
    /\ program \in DOMAIN CompletionTools
    /\ KrToolOf(program, CompletionAgent[program])
    /\ Len(calls) < MaxInflight
    /\ \E tool \in CompletionTools[program] :
          calls' = Append(session_interrupt(calls),
                          [tool |-> tool, pc |-> "await_reply",
                           steps |-> <<"interrupt", "generate_reply">>,
                           allow_interruptions |-> FALSE, cut |-> FALSE])
    /\ interrupts' = interrupts + 1
    /\ final_replies' = final_replies + 1
    /\ UNCHANGED <<program, entry_reply, other_vars, userdata, current_agent, entering, ret, drive_vars,
                   delete_requests, room_deleted>>

\* The final reply has been played: the handler resumes and sends
\* delete_room(DeleteRoomRequest(room=...)), then awaits the answer.
completion_reply_done ==
    /\ program \in DOMAIN CompletionTools
    /\ \E i \in DOMAIN calls :
          /\ calls[i].pc = "await_reply"
          /\ calls' = [calls EXCEPT ![i].pc = "await_delete",
                                    ![i].steps = @ \o <<"reply_done", "delete_room">>]
    /\ delete_requests' = delete_requests + 1
    /\ UNCHANGED <<program, entry_reply, other_vars, userdata, current_agent, entering, ret, drive_vars,
                   interrupts, final_replies, room_deleted>>

\* delete_room has answered: the room is gone and the handler returns None.
completion_returns ==
    /\ program \in DOMAIN CompletionTools
    /\ \E i \in DOMAIN calls :
          /\ calls[i].pc = "await_delete"
          /\ calls' = RemoveAt(calls, i)
    /\ room_deleted' = TRUE
    /\ ret' = Reply(<<"none">>)
    /\ UNCHANGED <<program, entry_reply, other_vars, userdata, current_agent, entering, drive_vars,
                   interrupts, final_replies, delete_requests>>

(* ---------------- order variant (agent_kr_test.py) --------------------- *)
\* OrderData() of agent_kr_test.py
KrTestOrderData == [menu_items |-> None, drink_size |-> None, special_requests |-> None]

\* order_keywords, syllable by syllable (romanised).
order_keywords ==
    {<<"a", "me", "ri", "ka", "no">>, <<"ka", "pe", "ra", "tte">>,
     <<"peu", "ra", "pu", "chi", "no">>, <<"keo", "pi">>,
     <<"e", "seu", "peu", "re", "so">>, <<"cha">>, <<"ju", "mun">>,
     <<"di", "ka", "pe", "in">>, <<"mul">>}

\* Python's `keyword in text` for strings: a contiguous occurrence.
Contains(text, keyword) ==
    \E i \in 1..(Len(text) - Len(keyword) + 1) :
        SubSeq(text, i, i + Len(keyword) - 1) = keyword

looks_like_order(text) == \E keyword \in order_keywords : Contains(text, keyword)

\* What the customer may have said: nothing, a greeting, the weather, a car,
\* an americano, an iced decaf latte.
OrderTexts ==
    {<<>>, <<"an", "nyeong">>, <<"nal", "ssi">>, <<"ja", "dong", "cha">>,
     <<"a", "me", "ri", "ka", "no">>, <<"a", "i", "seu", "di", "ka", "pe", "in", "ra", "tte">>}

\* The body of IntroAgent.order_started for one value of menu_items.
order_started_kr_test_body(menu_items) ==
    IF ~looks_like_order(menu_items)
    THEN /\ ret' = Reply(<<"order_talk_only">>)
         /\ UNCHANGED <<userdata, current_agent, entering>>
    ELSE /\ userdata' = [userdata EXCEPT !.menu_items = Some(menu_items)]
         /\ ret' = Transfer("OrderAgent", <<"ask_size_for", menu_items>>)
         /\ current_agent' = "OrderAgent"
         /\ entering' = TRUE

\* IntroAgent.order_started (agent_kr_test.py)
order_started_kr_test ==
    /\ KrToolOf("agent_kr_test", "IntroAgent")
    /\ \E menu_items \in OrderTexts : order_started_kr_test_body(menu_items)
    /\ UNCHANGED <<program, entry_reply, other_vars, drive_vars, room_vars>>

\* OrderAgent.on_enter (agent_kr_test.py): generate a reply.
order_on_enter ==
    /\ program = "agent_kr_test"
    /\ current_agent = "OrderAgent"
    /\ entering
    /\ entering' = FALSE
    /\ UNCHANGED <<program, entry_reply, other_vars, userdata, current_agent, ret,
                   drive_vars, room_vars>>

\* OrderAgent.order_details: store size and requests, return the summary.
order_details ==
    /\ KrToolOf("agent_kr_test", "OrderAgent")
    /\ \E drink_size \in Sizes, special_requests \in Requests :
          /\ userdata' = [userdata EXCEPT !.drink_size = Some(drink_size),
                                          !.special_requests = special_requests]
          /\ ret' = Reply(<<"order_summary", userdata.menu_items, drink_size,
                            shown(special_requests, "none")>>)
    /\ UNCHANGED <<program, entry_reply, other_vars, current_agent, entering,
                   drive_vars, room_vars>>

\* entrypoint of agent_kr.py / agent_test.py / agent_kr_test.py: fresh userdata,
\* IntroAgent.
InitOrder ==
    /\ program \in {"agent_kr", "agent_test", "agent_kr_test"}
    /\ userdata = CASE program = "agent_kr" -> OrderData
                     [] program = "agent_test" -> ReservationData
                     [] program = "agent_kr_test" -> KrTestOrderData
    /\ current_agent = "IntroAgent"
    /\ entering = TRUE
    /\ chat_ctx = [a \in AgentNames |-> <<>>]
    /\ truncated = <<>>
    /\ next_id = 1
    /\ said = 0
    /\ ret = Reply(<<"none">>)
    /\ add_calls = <<>>
    /\ handoffs = 0
    /\ checkout_started = FALSE
    /\ calls = <<>>
    /\ interrupts = 0
    /\ final_replies = 0
    /\ delete_requests = 0
    /\ room_deleted = FALSE
    /\ entry_reply = None
    /\ jobs = NoJobs
    /\ wav = NoWav

NextOrder ==
    \/ intro_on_enter
    \/ order_started
    \/ add_item_details
    \/ confirm_full_order_tool
    \/ information_gathered
    \/ reservation_on_enter
    \/ reservation_details
    \/ order_started_kr_test
    \/ order_on_enter
    \/ order_details
    \/ completion_called
    \/ completion_reply_done
    \/ completion_returns

\* A session of the order variant or of the reservation variant.
SpecOrder == InitOrder /\ [][NextOrder]_vars

(* ==================== two jobs on one worker (SpecJobs) ================= *)
\* The worker runs entrypoint once per job; `jobs` holds the userdata objects
\* created so far (an object's identity is its index in the heap) and, per
\* job, the object its session got as userdata (0: the job has not started).
JobIds == {1, 2}

session_vars == <<userdata, current_agent, entering, dialogue_vars, ret, add_calls,
                  handoffs, checkout_started, room_vars, entry_reply>>

\* The object entrypoint passes as userdata: DriveThruData() with the
\* registry filled (agent.py), OrderData() (agent_kr.py).
new_userdata == IF program = "agent" THEN entrypoint_userdata ELSE OrderData

\* An entrypoint that hands every job one userdata object created once.
entrypoint_shared_userdata(job) ==
    /\ jobs.session[job] = 0
    /\ jobs' = [heap |-> IF jobs.heap = <<>> THEN <<new_userdata>> ELSE jobs.heap,
                session |-> [jobs.session EXCEPT ![job] = 1]]
    /\ UNCHANGED <<program, session_vars, wav>>

\* entrypoint: a new userdata object for the session of this job.
entrypoint(job) ==
    /\ jobs.session[job] = 0
    /\ jobs' = [heap |-> Append(jobs.heap, new_userdata),
                session |-> [jobs.session EXCEPT ![job] = Len(jobs.heap) + 1]]
    /\ UNCHANGED <<program, session_vars, wav>>

\* What one tool call may leave in context.userdata: the assignments of the
\* drive-thru tools (whichever agent is active), one input value per tool.
DriveThruWrites(ud) ==
    LET D == Inputs(FALSE)
    IN  {[ud EXCEPT !.customer_name = Some(name)] : name \in D.names}
        \cup {[ud EXCEPT !.order = Some(AppendItem(ud.order, rec))] :
                 rec \in {r \in D.items : Len(OrderSeq(ud)) < D.max_order}}
        \cup {[ud EXCEPT !.pay_method = Some(method)] : method \in D.methods}
        \cup {[ud EXCEPT !.expense = Some(total)] : total \in D.totals}
        \cup {[ud EXCEPT !.prev_agent = Some(a)] : a \in {"greeter", "order", "payment"}}
        \cup {[ud EXCEPT !.checked_out = Some(TRUE), !.prev_agent = Some("pickup")]}

\* The same for agent_kr.py: order_started and add_item_details.
OrderWrites(ud) ==
    {[items |-> <<OrderItem("latte")>>, current_item_index |-> 0]}
    \cup {[items |-> [ud.items EXCEPT ![ud.current_item_index + 1].size = Some("Tall")],
           current_item_index |-> ud.current_item_index + 1] :
             x \in {i \in {ud.current_item_index} : i < Len(ud.items)}}

\* A tool call in the session of one job: it writes through context.userdata,
\* the object of that session.
job_tool(job) ==
    /\ jobs.session[job] # 0
    /\ LET ref == jobs.session[job]
           ud == jobs.heap[ref]
       IN  \E ud2 \in (IF program = "agent" THEN DriveThruWrites(ud) ELSE OrderWrites(ud)) :
              jobs' = [jobs EXCEPT !.heap[ref] = ud2]
    /\ UNCHANGED <<program, session_vars, wav>>

\* No session of this process is being followed.
NoSession ==
    /\ userdata = None
    /\ current_agent = "none"
    /\ entering = FALSE
    /\ chat_ctx = [a \in AgentNames |-> <<>>]
    /\ truncated = <<>>
    /\ next_id = 1
    /\ said = 0
    /\ ret = Reply(<<"none">>)
    /\ add_calls = <<>>
    /\ handoffs = 0
    /\ checkout_started = FALSE
    /\ calls = <<>>
    /\ interrupts = 0
    /\ final_replies = 0
    /\ delete_requests = 0
    /\ room_deleted = FALSE
    /\ entry_reply = None

InitJobs ==
    /\ program \in {"agent", "agent_kr"}
    /\ jobs = [heap |-> <<>>, session |-> [job \in JobIds |-> 0]]
    /\ wav = NoWav
    /\ NoSession

NextJobs == \E job \in JobIds : entrypoint(job) \/ job_tool(job)

SpecJobs == InitJobs /\ [][NextJobs]_vars

(* ===================== wav_merger.py (SpecWav) ========================= *)
\* What the header of a wav file says besides its length: channels, sample
\* width, frame rate and compression, taken together.
WaveFormats == {"mono 16 kHz", "stereo 44.1 kHz"}

\* The folders the merger may find: files <n>.wav for some n in 1..MaxFiles,
\* each with a format and a number of frames.
WavFolders ==
    UNION {[names -> [format : WaveFormats, nframes : 1..MaxFrames]] :
               names \in SUBSET (1..MaxFiles)}

\* Wave_read.getparams(): the header fields, the number of frames among them.
getparams(file) == <<file.format, file.nframes>>

\* sorted(names, key=int)
RECURSIVE sorted(_)
sorted(names) ==
    IF names = {} THEN <<>>
    ELSE LET first == CHOOSE n \in names : \A m \in names : n <= m
         IN  <<first>> \o sorted(names \ {first})

\* math.ceil(n / batch_size)
num_batches(n, batch_size) == (n + batch_size - 1) \div batch_size

\* files[batch_idx * batch_size : (batch_idx + 1) * batch_size]
batch_files(files, batch_idx, batch_size) ==
    SubSeq(files, batch_idx * batch_size + 1,
           IF (batch_idx + 1) * batch_size < Len(files)
           THEN (batch_idx + 1) * batch_size ELSE Len(files))

\* The listing: the .wav files sorted by number; none: print and return.
wav_list ==
    /\ program = "wav_merger"
    /\ wav.pc = "list"
    /\ LET files == sorted(DOMAIN wav.folder)
       IN  wav' = [wav EXCEPT !.files = files,
                              !.pc = IF files = <<>> THEN "returned" ELSE "merge"]
    /\ UNCHANGED <<program, session_vars, jobs>>

\* One round of the loop over batches: the parameters of the batch's first
\* file, every other file of the batch compared against them (ValueError on
\* the first difference), then the output file is written.
wav_batch ==
    /\ program = "wav_merger"
    /\ wav.pc = "merge"
    /\ LET batch == batch_files(wav.files, wav.batch_idx, wav.batch_size)
           params == getparams(wav.folder[batch[1]])
           mismatch == \E i \in 2..Len(batch) : getparams(wav.folder[batch[i]]) # params
           output == [name |-> wav.batch_idx, params |-> params, sources |-> batch]
           last == wav.batch_idx + 1 = num_batches(Len(wav.files), wav.batch_size)
       IN  IF mismatch
           THEN wav' = [wav EXCEPT !.pc = "ValueError"]
           ELSE wav' = [wav EXCEPT !.outputs = Append(@, output),
                                   !.batch_idx = @ + 1,
                                   !.pc = IF last THEN "returned" ELSE "merge"]
    /\ UNCHANGED <<program, session_vars, jobs>>

\* combine_wavs_in_batches(wav_folder, batch_size) is called.
InitWav ==
    /\ program = "wav_merger"
    /\ \E folder \in WavFolders, batch_size \in 1..MaxBatch :
          wav = [folder |-> folder, batch_size |-> batch_size, files |-> <<>>,
                 batch_idx |-> 0, outputs |-> <<>>, pc |-> "list"]
    /\ jobs = NoJobs
    /\ NoSession

NextWav == wav_list \/ wav_batch

SpecWav == InitWav /\ [][NextWav]_vars

(* ======================= drive-thru: properties ======================== *)
Wide == Inputs(TRUE)

IsPrefix(s, t) == Len(s) <= Len(t) /\ SubSeq(t, 1, Len(s)) = s

\* C1: the order list holds exactly the records passed to add_item so far,
\* one per call and in call order (an unset order counts as empty); no
\* other tool adds, removes or reorders records.
C1_OrderIsAddCalls == OrderSeq(userdata) = add_calls

C1_Witness ==
    /\ Len(add_calls) = 2
    /\ add_calls[1] # add_calls[2]
    /\ OrderSeq(userdata) = add_calls

\* C2: in a state whose order is unset or empty, order_done and payment_done
\* each return a clarifying message (a plain string, no target agent) and
\* leave every userdata field and the active agent unchanged.
C2_EmptyOrderRefused ==
    [][ (~TruthyList(userdata.order) /\ (order_done(Wide) \/ payment_done(Wide)))
        => /\ ret'.agent = None
           /\ ret'.msg \in {<<"no_order_yet">>, <<"confirm_payment_first">>}
           /\ userdata' = userdata
           /\ current_agent' = current_agent ]_vars

C2_Witness ==
    /\ current_agent = "order"
    /\ ~entering
    /\ ~TruthyList(userdata.order)
    /\ ret = Reply(<<"no_order_yet">>)

\* C3: whenever expense or pay_method is set, the order is non-empty.
C3_PaymentFieldsNeedOrder ==
    (userdata.expense # None \/ userdata.pay_method # None)
        => TruthyList(userdata.order)

C3_Witness ==
    /\ userdata.expense # None
    /\ userdata.pay_method # None
    /\ TruthyList(userdata.order)

\* C4: whenever checked_out is true, both expense and pay_method are set.
C4_CheckedOutNeedsPayment ==
    TruthyBool(userdata.checked_out)
        => (userdata.expense # None /\ userdata.pay_method # None)

C4_Witness ==
    /\ TruthyBool(userdata.checked_out)
    /\ userdata.expense # None
    /\ userdata.pay_method # None

\* C5 as claimed: the order list only grows by appending, and once
\* order_done has handed off to the PaymentAgent it never changes again.
C5_OrderFrozenAfterCheckout ==
    [][ /\ IsPrefix(OrderSeq(userdata), OrderSeq(userdata'))
        /\ checkout_started => userdata'.order = userdata.order ]_vars

\* C5 as amended: the order list changes only by add_item appending one
\* record while the BaristaOrderTaker is active; while the PaymentAgent,
\* the PickupNotifier or the LaneGreeter is active it does not change.
C5_OrderChangesOnlyWhileOrdering ==
    [][ userdata'.order # userdata.order
        => /\ current_agent = "order"
           /\ current_agent' = "order"
           /\ Len(OrderSeq(userdata')) = Len(OrderSeq(userdata)) + 1
           /\ IsPrefix(OrderSeq(userdata), OrderSeq(userdata')) ]_vars

\* An add_item that ran after a checkout had started: the next customer's
\* record is appended to the list the first checkout was made with.
C5_Witness ==
    /\ checkout_started
    /\ TruthyBool(userdata.checked_out)
    /\ current_agent = "order"
    /\ Len(OrderSeq(userdata)) = 2
    /\ \E rec \in Wide.items : ret = Reply(<<"added", rec.size, rec.item>>)

\* The summary shows every field that is set with the field's value.
Reflects(ud, s) ==
    /\ ud.customer_name # None => s.name = <<"str", ud.customer_name[1]>>
    /\ ud.car_model # None => s.car_model = <<"str", ud.car_model[1]>>
    /\ ud.license_plate # None => s.license_plate = <<"str", ud.license_plate[1]>>
    /\ ud.order # None => s.order = <<"list", ud.order[1]>>
    /\ ud.pay_method # None => s.pay_method = <<"str", ud.pay_method[1]>>
    /\ ud.expense # None => s.expense = <<"num", ud.expense[1]>>
    /\ ud.checked_out # None => s.checked_out = <<"bool", ud.checked_out[1]>>

\* Every data field that is set in ud has the same value in ud2.
KeepsSetFields(ud, ud2) ==
    \A i \in DOMAIN DataFields(ud) :
        DataFields(ud)[i] # None => DataFields(ud2)[i] = DataFields(ud)[i]

LastItem(items) == items[Len(items)]

\* C6: a hand-off loses no collected data: the transfer tool and the target
\* agent's on_enter keep every field that was set, and the summary that
\* on_enter injects into the new agent's context reflects all of them.
C6_HandoffKeepsAndShowsData ==
    [][ /\ handoffs' = handoffs + 1 => KeepsSetFields(userdata, userdata')
        /\ (on_enter /\ userdata.prev_agent # None)
              => /\ userdata' = userdata
                 /\ Reflects(userdata, LastItem(chat_ctx'[current_agent]).content) ]_vars

IsInstruction(m) == m.type = "message" /\ m.role \in {"system", "developer"}

NoDuplicateIds(items) ==
    \A i, j \in DOMAIN items : items[i].id = items[j].id => i = j

\* C7: the history on_enter carries over from the previous agent has at most
\* 6 items and no instruction item, and no agent's (merged) context holds
\* two items with the same id.
C7_CarriedHistoryBounded ==
    /\ Len(truncated) <= 6
    /\ \A i \in DOMAIN truncated : ~IsInstruction(truncated[i])
    /\ \A a \in AgentNames : NoDuplicateIds(chat_ctx[a])

\* Back at the greeter after a full round: the previous agent held more than
\* 6 dialogue items, 6 were carried, and all of them were already in the
\* greeter's own context, which therefore grew by the system message only.
C7_Witness ==
    /\ handoffs = 4
    /\ current_agent = "greeter"
    /\ ~entering
    /\ Len(truncated) = 6
    /\ Len(copy_exclude_instructions(chat_ctx["pickup"])) = 6
    /\ Len(copy_exclude_instructions(chat_ctx["greeter"])) = 7
    /\ Len(chat_ctx["greeter"]) = 9

\* C8: when expense or pay_method is unset, payment_done returns the
\* clarifying message, the PaymentAgent stays active and no userdata field
\* (expense, pay_method, checked_out or any other) changes.
C8_PaymentDoneRefused ==
    [][ (payment_done(Wide) /\ (userdata.expense = None \/ userdata.pay_method = None))
        => /\ ret' = Reply(<<"confirm_payment_first">>)
           /\ current_agent' = "payment"
           /\ userdata' = userdata ]_vars

\* Scenario B: confirm_total(5300), pay_method unset, payment_done refused.
C8_Witness ==
    /\ current_agent = "payment"
    /\ userdata.expense = Some(5300)
    /\ userdata.pay_method = None
    /\ userdata.checked_out = None
    /\ ret = Reply(<<"confirm_payment_first">>)

\* The role changes of the drive-thru cycle, each with the tool that makes it.
RoleChanges ==
    {<<"greeter", "order">>, <<"order", "payment">>,
     <<"payment", "pickup">>, <<"pickup", "greeter">>}

HandoffTool(from) ==
    CASE from = "greeter" -> to_order(Wide)
      [] from = "order" -> order_done(Wide)
      [] from = "payment" -> payment_done(Wide)
      [] from = "pickup" -> pickup_complete(Wide)

\* C11: the session starts with the LaneGreeter; every change of the active
\* agent is greeter -> order by to_order, order -> payment by order_done,
\* payment -> pickup by payment_done or pickup -> greeter by
\* pickup_complete; and whatever the data, the greeter always offers
\* to_order again, so the cycle can be repeated.
C11_RoleCycle ==
    /\ current_agent = "greeter"
    /\ [][ current_agent' # current_agent
           => /\ <<current_agent, current_agent'>> \in RoleChanges
              /\ HandoffTool(current_agent) ]_vars
    /\ []( (ToolOf("greeter") /\ handoffs < MaxHandoffs) => ENABLED to_order(Wide) )

\* The second round: back in the BaristaOrderTaker after a completed pickup.
C11_Witness ==
    /\ handoffs = 5
    /\ current_agent = "order"
    /\ userdata.prev_agent = Some("greeter")
    /\ TruthyBool(userdata.checked_out)

DataTool ==
    \/ update_name(Wide)
    \/ update_car_model(Wide)
    \/ update_license_plate(Wide)
    \/ add_item(Wide)
    \/ update_pay_method(Wide)
    \/ confirm_total(Wide)

\* C12: the active agent changes only in a step of a hand-off tool that
\* returns the target agent; update_name, update_car_model,
\* update_license_plate, add_item, update_pay_method and confirm_total
\* change neither the active agent nor prev_agent.
C12_OnlyHandoffToolsChangeRole ==
    [][ /\ current_agent' # current_agent
           => /\ HandoffTool(current_agent)
              /\ ret'.agent = Some(current_agent')
        /\ DataTool
           => /\ current_agent' = current_agent
              /\ userdata'.prev_agent = userdata.prev_agent
              /\ ret'.agent = None ]_vars

\* confirm_total has run in the PaymentAgent and the role is what it was.
C12_Witness ==
    /\ current_agent = "payment"
    /\ userdata.prev_agent = Some("order")
    /\ ret = Reply(<<"total_is", 5300>>)

(* ================ order / reservation: properties ====================== *)
\* C9: in every session the room-teardown request is issued at most once,
\* and exactly once when a completion tool (order_confirmed, order_cancelled,
\* reservation_confirmed, reservation_cancelled) has run to its end.
C9_TeardownExactlyOnce ==
    /\ delete_requests <= 1
    /\ room_deleted => delete_requests = 1

\* The summary lists every ordered item by name, in order.
IsFullOrderSummary(r, ud) ==
    /\ r.agent = None
    /\ r.msg[1] = "order_summary"
    /\ Len(r.msg[2]) = Len(ud.items)
    /\ \A i \in DOMAIN ud.items :
          /\ r.msg[2][i].name = ud.items[i].name
          /\ ud.items[i].size # None
          /\ r.msg[2][i].size = shown(ud.items[i].size, "unspecified")

\* C10: the add_item_details call for the last item, and every
\* reservation_details call, returns the full confirmation summary itself
\* and leaves the active agent unchanged.
C10_LastDetailReturnsSummary ==
    [][ /\ (add_item_details /\ userdata.current_item_index = Len(userdata.items) - 1)
           => /\ IsFullOrderSummary(ret', userdata')
              /\ current_agent' = current_agent
        /\ reservation_details
           => /\ ret'.agent = None
              /\ ret'.msg[1] = "reservation_summary"
              /\ ret'.msg[2].type = userdata'.reservation_type[1]
              /\ ret'.msg[2].party_size = userdata'.party_size[1]
              /\ current_agent' = current_agent ]_vars

\* Two items, the second one's details just given, the summary returned.
C10_Witness ==
    /\ program = "agent_kr"
    /\ Len(userdata.items) = 2
    /\ userdata.current_item_index = 2
    /\ IsFullOrderSummary(ret, userdata)

\* Every segment of the input is empty or blank.
AllBlank(menu_items) == \A i \in DOMAIN menu_items : menu_items[i] \in {"", " "}

AskedAgain ==
    /\ ret'.agent = None
    /\ ret'.msg \in {<<"say_menu_again">>, <<"order_talk_only">>}
    /\ current_agent' = "IntroAgent"
    /\ userdata' = userdata

\* C13: when order_started is called with an input in which no order item
\* is recognised (agent_kr.py: only blank segments; agent_kr_test.py: none
\* of the order keywords), it returns the clarifying message without a
\* target agent, the IntroAgent stays active and no field changes.
C13_UnrecognisedOrderAsksAgain ==
    [][ /\ \A menu_items \in MenuInputs :
             ( /\ KrToolOf("agent_kr", "IntroAgent")
               /\ AllBlank(menu_items)
               /\ order_started_body(menu_items) ) => AskedAgain
        /\ \A menu_items \in OrderTexts :
             ( /\ KrToolOf("agent_kr_test", "IntroAgent")
               /\ ~looks_like_order(menu_items)
               /\ order_started_kr_test_body(menu_items) ) => AskedAgain ]_vars

\* The IntroAgent has asked again and is still the active agent.
C13_Witness ==
    /\ current_agent = "IntroAgent"
    /\ ~entering
    /\ ret.msg \in {<<"say_menu_again">>, <<"order_talk_only">>}
    /\ userdata \in {OrderData, KrTestOrderData}

\* The target each hand-off tool passes to _transfer_to_agent.
HandoffTarget ==
    [greeter |-> "order", order |-> "payment", payment |-> "pickup", pickup |-> "greeter"]

\* C14: a hand-off tool whose target agent is not in the registry changes
\* nothing: prev_agent and every other field, the active agent and its
\* entry state stay as they were, no agent is returned, and unless the tool
\* refused before the hand-off the call ends in the KeyError of the lookup.
C14_UnknownTargetChangesNothing ==
    [][ ( /\ HandoffTool(current_agent)
          /\ HandoffTarget[current_agent] \notin userdata.agents )
        => /\ userdata' = userdata
           /\ current_agent' = current_agent
           /\ entering' = entering
           /\ handoffs' = handoffs
           /\ ret'.agent = None
           /\ \/ ret' = Raise(<<"KeyError", HandoffTarget[current_agent]>>)
              \/ ret'.msg \in {<<"no_order_yet">>, <<"confirm_payment_first">>} ]_vars

\* order_done has failed on the missing PaymentAgent, with an order in place.
C14_Witness ==
    /\ "payment" \notin userdata.agents
    /\ current_agent = "order"
    /\ TruthyList(userdata.order)
    /\ userdata.prev_agent = Some("greeter")
    /\ ret = Raise(<<"KeyError", "payment">>)

\* A tool call of the order and reservation programs starts.
ToolStarts ==
    \/ order_started
    \/ add_item_details
    \/ confirm_full_order_tool
    \/ information_gathered
    \/ reservation_details
    \/ order_started_kr_test
    \/ order_details
    \/ completion_called

\* C15: tool calls of a session are serialized: no tool call starts while
\* another one, suspended at an await or not, has not finished.
C15_ToolCallsSerialized ==
    [][ ToolStarts => calls = <<>> ]_vars

\* The userdata a job's session sees (None before the job has started).
UserdataOf(J, job) == IF J.session[job] = 0 THEN None ELSE Some(J.heap[J.session[job]])

\* C16: each session has its own userdata (with its own registry): whatever
\* the interleaving of two running jobs, a tool call in the session of one
\* job changes no field of the userdata of the other.
C16_SessionsOwnTheirState ==
    [][ \A job \in JobIds :
          job_tool(job)
          => \A other \in JobIds \ {job} :
                UserdataOf(jobs', other) = UserdataOf(jobs, other) ]_vars

\* Both jobs are running and their sessions hold different data.
C16_Witness ==
    /\ \A job \in JobIds : jobs.session[job] # 0
    /\ UserdataOf(jobs, 1) # UserdataOf(jobs, 2)
    /\ \A job \in JobIds : UserdataOf(jobs, job) \notin {Some(entrypoint_userdata), Some(OrderData)}

\* An Optional field is rendered faithfully: "unknown" when it is unset,
\* its current value when it is set.
RendersField(o, rendered) ==
    IF o = None THEN rendered = <<"str", "unknown">> ELSE rendered[2] = o[1]

\* C17: summarize() renders each of the seven data fields of the session's
\* userdata: "unknown" for a field that is unset, the current value for a
\* field that is set.
C17_SummaryRendersEveryField ==
    LET summary == summarize(userdata)
    IN  /\ RendersField(userdata.customer_name, summary.name)
        /\ RendersField(userdata.car_model, summary.car_model)
        /\ RendersField(userdata.license_plate, summary.license_plate)
        /\ RendersField(userdata.order, summary.order)
        /\ RendersField(userdata.pay_method, summary.pay_method)
        /\ RendersField(userdata.expense, summary.expense)
        /\ RendersField(userdata.checked_out, summary.checked_out)

\* Two files of the folder differ in format.
FormatsMismatch(folder) ==
    \E f, g \in DOMAIN folder : folder[f].format # folder[g].format

\* C18: combine_wavs_in_batches ends in an error exactly when the formats of
\* the input files mismatch: it fails if two files of the folder differ in
\* format, and merges without error if all files share one format.
C18_RaisesIffFormatsMismatch ==
    wav.pc \in {"returned", "ValueError"}
    => (wav.pc = "ValueError" <=> FormatsMismatch(wav.folder))

IsSummaryMessage(m, ud) ==
    m.type = "message" /\ m.role = "system" /\ m.content = summarize(ud)

\* t is s with some items left out (the order kept).
RECURSIVE IsSubsequence(_, _)
IsSubsequence(s, t) ==
    IF s = <<>> THEN TRUE
    ELSE IF t = <<>> THEN FALSE
    ELSE IF Head(s) = Head(t) THEN IsSubsequence(Tail(s), Tail(t))
    ELSE IsSubsequence(s, Tail(t))

\* C20: when an agent is entered, on_enter leaves in the agent's context its
\* own items, then items carried over from the previous agent, then, as the
\* last item, the system message with the summary of the current userdata;
\* the reply is requested on that context with tool_choice "none"; and until
\* that reply is done no tool runs and no field of userdata changes.
C20_EntryTurn ==
    /\ [][ on_enter
           => LET own == chat_ctx[current_agent]
                  items == chat_ctx'[current_agent]
              IN  /\ Len(items) > Len(own)
                  /\ SubSeq(items, 1, Len(own)) = own
                  /\ IsSubsequence(SubSeq(items, Len(own) + 1, Len(items) - 1),
                                   carried_history(userdata, chat_ctx))
                  /\ IsSummaryMessage(LastItem(items), userdata)
                  /\ entry_reply' = Some([tool_choice |-> "none"]) ]_vars
    /\ []( entry_reply # None
           => /\ entry_reply[1].tool_choice = "none"
              /\ chat_ctx[current_agent] # <<>>
              /\ IsSummaryMessage(LastItem(chat_ctx[current_agent]), userdata) )
    /\ [][ entering
           => /\ on_enter \/ entry_reply_done
              /\ userdata' = userdata
              /\ ret' = ret ]_vars

\* The PaymentAgent's entry reply is pending on a context that holds carried
\* history.
C20_Witness ==
    /\ current_agent = "payment"
    /\ entry_reply # None
    /\ truncated # <<>>
    /\ Len(chat_ctx["payment"]) > 1

\* The step changes no field of userdata outside `fields`.
WritesOnly(fields) ==
    /\ DOMAIN userdata' = DOMAIN userdata
    /\ \A f \in DOMAIN userdata \ fields : userdata'[f] = userdata[f]

\* C21: userdata is written by tools only, and each data tool writes its own
\* field and no other: update_name customer_name, update_car_model
\* car_model, update_license_plate license_plate, update_pay_method
\* pay_method, confirm_total expense, add_item order; on_enter and the entry
\* reply change no field.
C21_EachToolWritesItsField ==
    [][ /\ update_name(Wide) => WritesOnly({"customer_name"})
        /\ update_car_model(Wide) => WritesOnly({"car_model"})
        /\ update_license_plate(Wide) => WritesOnly({"license_plate"})
        /\ update_pay_method(Wide) => WritesOnly({"pay_method"})
        /\ confirm_total(Wide) => WritesOnly({"expense"})
        /\ add_item(Wide) => WritesOnly({"order"})
        /\ (on_enter \/ entry_reply_done) => userdata' = userdata
        /\ userdata' # userdata => IdentityTools(Wide) \/ FlowTools(Wide) ]_vars

\* update_pay_method has run with everything else of the payment still unset.
C21_Witness ==
    /\ ret = Reply(<<"pay_method_set", "card">>)
    /\ userdata.pay_method = Some("card")
    /\ userdata.expense = None
    /\ userdata.checked_out = None
    /\ TruthyStr(userdata.customer_name)

\* A hand-off tool is called with its precondition unmet.
HandoffRefused ==
    \/ order_done(Wide) /\ ~TruthyList(userdata.order)
    \/ payment_done(Wide) /\ (~TruthyNum(userdata.expense) \/ ~TruthyStr(userdata.pay_method))

\* C22: a successful hand-off leaves in prev_agent the agent that was
\* active just before it, which is not the agent that is active after it;
\* order_done with an empty order and payment_done without expense or
\* pay_method leave prev_agent as it was.
C22_PrevAgentIsOutgoingAgent ==
    /\ [][ /\ handoffs' = handoffs + 1
              => /\ userdata'.prev_agent = Some(current_agent)
                 /\ userdata'.prev_agent # Some(current_agent')
           /\ HandoffRefused
              => /\ userdata'.prev_agent = userdata.prev_agent
                 /\ handoffs' = handoffs ]_vars
    /\ []( /\ handoffs = 0 => userdata.prev_agent = None
           /\ handoffs > 0 => /\ userdata.prev_agent # None
                              /\ userdata.prev_agent # Some(current_agent)
                              /\ HandoffTarget[userdata.prev_agent[1]] = current_agent )

\* payment_done has refused in the PaymentAgent, entered from the order agent.
C22_Witness ==
    /\ current_agent = "payment"
    /\ handoffs = 2
    /\ userdata.prev_agent = Some("order")
    /\ ret = Reply(<<"confirm_payment_first">>)

\* The smaller of two numbers.
Min(a, b) == IF a < b THEN a ELSE b

\* The output files are the batches of the sorted input: ceil(n/b) of them,
\* output k made of the files k*b .. min((k+1)*b, n)-1 in ascending order.
OutputsAsBatched ==
    LET files == sorted(DOMAIN wav.folder)
        n == Len(files)
        b == wav.batch_size
    IN  /\ Len(wav.outputs) = (n + b - 1) \div b
        /\ \A k \in 0..(Len(wav.outputs) - 1) :
              /\ wav.outputs[k + 1].name = k
              /\ wav.outputs[k + 1].sources = SubSeq(files, k * b + 1, Min((k + 1) * b, n))
              /\ k + 1 < Len(wav.outputs) => Len(wav.outputs[k + 1].sources) = b
        /\ \A f \in DOMAIN wav.folder :
              Cardinality({<<k, i>> \in (1..Len(wav.outputs)) \X (1..b) :
                              /\ i <= Len(wav.outputs[k].sources)
                              /\ wav.outputs[k].sources[i] = f}) = 1

\* C23: for n input files of one format and batch size b,
\* combine_wavs_in_batches ends having written exactly ceil(n/b) output
\* files (none for n = 0), output k being files k*b .. min((k+1)*b, n)-1 in
\* ascending numeric order; every input file is in exactly one output,
\* once, and every batch but the last has b files.
C23_OutputsAreTheBatches ==
    (wav.pc \in {"returned", "ValueError"} /\ ~FormatsMismatch(wav.folder))
    => (wav.pc = "returned" /\ OutputsAsBatched)

\* C24: in agent_kr.py 0 <= current_item_index <= len(items) always; an
\* add_item_details call made while the index is below len(items) raises it
\* by exactly 1; and the index never goes down, except that order_started
\* sets it to 0.
C24_ItemIndexInRange ==
    /\ []( program = "agent_kr"
           => /\ 0 <= userdata.current_item_index
              /\ userdata.current_item_index <= Len(userdata.items) )
    /\ [][ program = "agent_kr"
           => /\ ( add_item_details
                   /\ userdata.current_item_index < Len(userdata.items) )
                 => userdata'.current_item_index = userdata.current_item_index + 1
              /\ userdata'.current_item_index < userdata.current_item_index
                 => order_started /\ userdata'.current_item_index = 0 ]_vars

\* The index has reached len(items) and the summary has been returned.
C24_Witness ==
    /\ program = "agent_kr"
    /\ Len(userdata.items) = 2
    /\ userdata.current_item_index = 2
    /\ ret.msg[1] = "order_summary"

\* The names of the ordered items, in list order.
ItemNames(ud) == [i \in DOMAIN ud.items |-> ud.items[i].name]

\* C25: add_item_details gives its details to the items in list order, one
\* item per call: the k-th call after order_started writes the given size
\* and requests to item k and to no other item, so items 1..k carry the
\* sizes of calls 1..k and the later items have none; names and length of
\* the list stay; and the call returns the confirmation summary exactly when
\* it was the len(items)-th.
C25_DetailsInListOrder ==
    /\ []( program = "agent_kr"
           => \A i \in DOMAIN userdata.items :
                 IF i <= userdata.current_item_index
                 THEN userdata.items[i].size # None
                 ELSE /\ userdata.items[i].size = None
                      /\ userdata.items[i].special_requests = None )
    /\ [][ \A drink_size \in Sizes, special_requests \in Requests :
             ( /\ KrToolOf("agent_kr", "OrderAgent")
               /\ userdata.current_item_index < Len(userdata.items)
               /\ add_item_details_body(drink_size, special_requests) )
             => LET k == userdata.current_item_index + 1
                IN  /\ userdata'.items[k].size = Some(drink_size)
                    /\ userdata'.items[k].special_requests = special_requests
                    /\ \A j \in DOMAIN userdata.items \ {k} :
                          userdata'.items[j] = userdata.items[j]
                    /\ ItemNames(userdata') = ItemNames(userdata)
                    /\ ret'.msg[1] = "order_summary" <=> k = Len(userdata.items) ]_vars

\* One of two items has its details; the next item was asked for.
C25_Witness ==
    /\ program = "agent_kr"
    /\ Len(userdata.items) = 2
    /\ userdata.current_item_index = 1
    /\ userdata.items[1].size = Some("Venti")
    /\ userdata.items[2].size = None
    /\ ret.msg[1] = "next_item"

\* What confirm_full_order has to return for the order as it stands: the
\* guidance when there are no items, the summary of all the items otherwise.
IsConfirmation(r, ud) ==
    /\ r.agent = None
    /\ IF ud.items = <<>>
       THEN r.msg = <<"no_order">>
       ELSE IsFullOrderSummary(r, ud)

\* C26: an add_item_details call made when current_item_index >= len(items)
\* changes no field (no size or request is overwritten, the index stays) and
\* returns what confirm_full_order returns: the full summary when there are
\* items, the 'no order' guidance when there are none; confirm_full_order
\* itself changes no field.
C26_ExtraDetailCallOnlyConfirms ==
    /\ IsConfirmation(confirm_full_order(OrderData), OrderData)
    /\ [][ /\ ( /\ add_item_details
                /\ userdata.current_item_index >= Len(userdata.items) )
              => /\ userdata' = userdata
                 /\ ret' = confirm_full_order(userdata)
                 /\ IsConfirmation(ret', userdata)
           /\ confirm_full_order_tool
              => /\ userdata' = userdata
                 /\ ret'.agent = None
                 /\ ret'.msg[1] \in {"order_summary", "no_order"} ]_vars

\* All items have their details: a further add_item_details call finds no
\* item left.
C26_Witness ==
    /\ program = "agent_kr"
    /\ current_agent = "OrderAgent"
    /\ userdata.current_item_index = Len(userdata.items)
    /\ Len(userdata.items) = 2
    /\ userdata.items[2].size = Some("Tall")
    /\ ret = confirm_full_order(userdata)
    /\ ~room_deleted

\* The step changes one of the given fields of userdata.
Changes(fields) == \E f \in fields : userdata'[f] # userdata[f]

\* C27: a field changes only while the agent that has its tool is active:
\* order, customer_name, car_model and license_plate under the
\* BaristaOrderTaker, pay_method and expense under the PaymentAgent,
\* checked_out only by pickup_complete under the PickupNotifier; under the
\* LaneGreeter no data field changes.
C27_FieldsChangeUnderTheirAgent ==
    [][ /\ Changes({"order", "customer_name", "car_model", "license_plate"})
           => ToolOf("order")
        /\ Changes({"pay_method", "expense"}) => ToolOf("payment")
        /\ Changes({"checked_out"}) => ToolOf("pickup") /\ pickup_complete(Wide)
        /\ current_agent = "greeter" => DataFields(userdata') = DataFields(userdata) ]_vars

\* A whole round is done: every field was written, each under its agent,
\* and the LaneGreeter is active again.
C27_Witness ==
    /\ current_agent = "greeter"
    /\ ~entering
    /\ userdata.prev_agent = Some("pickup")
    /\ \A i \in DOMAIN DataFields(userdata) : DataFields(userdata)[i] # None

\* C28: no data field is ever reset: once customer_name, car_model,
\* license_plate, order, pay_method, expense or checked_out is set, no step
\* (pickup_complete's return to the LaneGreeter for the next customer
\* included) makes it unset again, and the order list never gets shorter.
C28_FieldsNeverReset ==
    [][ /\ \A i \in DOMAIN DataFields(userdata) :
              DataFields(userdata)[i] # None => DataFields(userdata')[i] # None
        /\ Len(OrderSeq(userdata')) >= Len(OrderSeq(userdata)) ]_vars

\* The next customer is ordering: the first customer's data is all there and
\* the order has grown.
C28_Witness ==
    /\ current_agent = "order"
    /\ userdata.prev_agent = Some("greeter")
    /\ \A i \in DOMAIN DataFields(userdata) : DataFields(userdata)[i] # None
    /\ Len(OrderSeq(userdata)) = 2
    /\ Len(add_calls) = 2

\* C29: in agent_kr.py the agents follow IntroAgent -> OrderAgent -> end of
\* session: the active agent changes only by an order_started that found
\* items; under the OrderAgent no tool returns an agent, the IntroAgent never
\* becomes active again, and the list of item names that order_started left
\* never changes.
C29_IntroThenOrderOnly ==
    [][ program = "agent_kr"
        => /\ current_agent' # current_agent
              => /\ order_started
                 /\ current_agent = "IntroAgent"
                 /\ current_agent' = "OrderAgent"
                 /\ ret' = Transfer("OrderAgent", ret'.msg)
                 /\ userdata'.items # <<>>
           /\ current_agent = "OrderAgent"
              => /\ current_agent' = "OrderAgent"
                 /\ ret' # ret => ret'.agent = None
                 /\ ItemNames(userdata') = ItemNames(userdata) ]_vars

\* The session has ended under the OrderAgent with the two items ordered.
C29_Witness ==
    /\ program = "agent_kr"
    /\ current_agent = "OrderAgent"
    /\ room_deleted
    /\ ItemNames(userdata) = <<"latte", "americano">>
    /\ userdata.current_item_index = 2

====
